---- MODULE Spec2Model ----
(***************************************************************************)
(* Model of tika-xapian: the query splitter (xapian_utils.rs), the         *)
(* interactive search loop (tui_app.rs), the event threads (util.rs) and   *)
(* the document/index path (tika_document.rs, main.rs).                    *)
(*                                                                         *)
(* Text is modelled as a sequence of one-character strings, so that        *)
(* substring search and case-insensitive prefix matching are computed the  *)
(* way the nom combinators compute them.                                   *)
(***************************************************************************)
EXTENDS Integers, Sequences, FiniteSets, TLC

(***************************************************************************)
(* Bounds of the model.                                                    *)
(***************************************************************************)
\* keys the input thread reads from stdin in one run
MaxKeys == 4
\* tick events the tick thread sends in one run
MaxTicks == 1
\* events waiting in the mpsc channel (the channel itself is unbounded)
MaxChan == 2
\* operators in a generated query string
MaxOps == 3

(***************************************************************************)
(* Characters and strings.                                                 *)
(***************************************************************************)
NL == "\n"
SP == " "

UpperChars ==
  <<"A","B","C","D","E","F","G","H","I","J","K","L","M",
    "N","O","P","Q","R","S","T","U","V","W","X","Y","Z">>
LowerChars ==
  <<"a","b","c","d","e","f","g","h","i","j","k","l","m",
    "n","o","p","q","r","s","t","u","v","w","x","y","z">>

\* char::to_lowercase, as compare_no_case applies it to both sides
to_lowercase(c) ==
  IF \E i \in 1..Len(UpperChars) : UpperChars[i] = c
  THEN LowerChars[CHOOSE i \in 1..Len(UpperChars) : UpperChars[i] = c]
  ELSE c

\* the suffix of s that starts at index i (1-based); empty when i > Len(s)
Drop(s, i) == SubSeq(s, i, Len(s))

\* s starts with pat, compared byte for byte
StartsWith(s, pat) ==
  /\ Len(s) >= Len(pat)
  /\ \A i \in 1..Len(pat) : s[i] = pat[i]

\* the first index at which pat occurs in s, 0 when it does not occur
FindSubstring(s, pat) ==
  LET hits == {i \in 1..(Len(s) - Len(pat) + 1) :
                 \A j \in 1..Len(pat) : s[i + j - 1] = pat[j]}
  IN IF hits = {} THEN 0 ELSE CHOOSE i \in hits : \A j \in hits : i <= j

\* complete!(take_until!(pat)): everything before the first occurrence of pat;
\* Incomplete (pat not found) is turned into an error by complete!
take_until(pat, s) ==
  LET at == FindSubstring(s, pat)
  IN IF at = 0
     THEN [ok |-> FALSE, matched |-> <<>>, rest |-> s]
     ELSE [ok |-> TRUE, matched |-> SubSeq(s, 1, at - 1), rest |-> Drop(s, at)]

\* the patterns of take_up_to_operator, in the order alt! tries them
TakePatterns ==
  << <<"A","N","D"," ","N","O","T">>,
     <<"a","n","d"," ","n","o","t">>,
     <<"A","N","D">>,
     <<"a","n","d">>,
     <<"X","O","R">>,
     <<"x","o","r">>,
     <<"O","R">>,
     <<"o","r">> >>

\* alt!: the result of the first pattern (in list order) that succeeds
RECURSIVE take_alt(_, _, _)
take_alt(pats, k, s) ==
  IF k > Len(pats)
  THEN [ok |-> FALSE, matched |-> <<>>, rest |-> s]
  ELSE LET r == take_until(pats[k], s)
       IN IF r.ok THEN r ELSE take_alt(pats, k + 1, s)

take_up_to_operator(s) == take_alt(TakePatterns, 1, s)

\* streaming tag_no_case: compare over the common length, ignoring case;
\* a mismatch is an Error, a too-short input that matches so far is Incomplete
tag_no_case(t, s) ==
  LET n == IF Len(s) < Len(t) THEN Len(s) ELSE Len(t)
  IN IF \E i \in 1..n : to_lowercase(s[i]) # to_lowercase(t[i])
     THEN [res |-> "Error", rest |-> s]
     ELSE IF Len(s) >= Len(t)
          THEN [res |-> "Ok", rest |-> Drop(s, Len(t) + 1)]
          ELSE [res |-> "Incomplete", rest |-> s]

\* matchop with AND tried ahead of the keywords it is a prefix of
MatchOps_and_first ==
  << [kw |-> <<"A","N","D">>,                         op |-> "And"],
     [kw |-> <<"A","N","D"," ","N","O","T">>,         op |-> "AndNot"],
     [kw |-> <<"A","N","D"," ","M","A","Y","B","E">>, op |-> "AndMaybe"],
     [kw |-> <<"X","O","R">>,                         op |-> "Xor"],
     [kw |-> <<"O","R">>,                             op |-> "Or"] >>

\* the alternatives of matchop, in the order alt tries them
MatchOps ==
  << [kw |-> <<"A","N","D"," ","N","O","T">>,         op |-> "AndNot"],
     [kw |-> <<"A","N","D"," ","M","A","Y","B","E">>, op |-> "AndMaybe"],
     [kw |-> <<"A","N","D">>,                         op |-> "And"],
     [kw |-> <<"X","O","R">>,                         op |-> "Xor"],
     [kw |-> <<"O","R">>,                             op |-> "Or"],
     [kw |-> <<"F","I","L","T","E","R">>,             op |-> "Filter"],
     [kw |-> <<"N","E","A","R">>,                     op |-> "Near"],
     [kw |-> <<"P","H","R","A","S","E">>,             op |-> "Phrase"],
     [kw |-> <<"R","A","N","G","E">>,                 op |-> "ValueRange"],
     [kw |-> <<"S","C","A","L","E","D">>,             op |-> "ScaleWeight"],
     [kw |-> <<"E","L","I","T","E">>,                 op |-> "EliteSet"],
     [kw |-> <<">">>,                                 op |-> "ValueGe"],
     [kw |-> <<"<">>,                                 op |-> "ValueLe"],
     [kw |-> <<"S","Y","N","O","N","Y","M">>,         op |-> "Synonym"] >>

\* alt over value(op, tag_no_case(kw)): only an Error moves on to the next
\* alternative; Ok and Incomplete are returned as they are
RECURSIVE matchop_alt(_, _, _)
matchop_alt(alts, k, s) ==
  IF k > Len(alts)
  THEN [res |-> "Error", op |-> "None", rest |-> s]
  ELSE LET r == tag_no_case(alts[k].kw, s)
       IN IF r.res = "Error"
          THEN matchop_alt(alts, k + 1, s)
          ELSE [res |-> r.res, op |-> alts[k].op, rest |-> r.rest]

matchop(s) == matchop_alt(MatchOps, 1, s)

(***************************************************************************)
(* Queries.  A Query is what xapian_rusty hands back: the model keeps the  *)
(* structure parse_user_query builds, a leaf per parse_query call and a    *)
(* node per add_right call.                                                *)
(***************************************************************************)
Leaf(text) == [node |-> "leaf", text |-> text]
add_right(left, op, right) == [node |-> "op", op |-> op, left |-> left, right |-> right]

\* the guard of the fold in parse_user_query
DepthLimit == 50

\* the fold without its depth guard
RECURSIVE parse_loop_unguarded(_, _, _, _)
parse_loop_unguarded(query, operator, qstr, depth) ==
  IF Len(qstr) = 0
  THEN [kind |-> "Ok", query |-> query]
  ELSE LET t == take_up_to_operator(qstr)
       IN IF ~t.ok
          THEN [kind |-> "Ok", query |-> add_right(query, operator, Leaf(qstr))]
          ELSE LET q2 == add_right(query, operator, Leaf(t.matched))
                   m  == matchop(t.rest)
               IN IF m.res # "Ok"
                  THEN [kind |-> "Panic", query |-> q2]
                  ELSE parse_loop_unguarded(q2, m.op, m.rest, depth + 1)

\* the while loop of parse_user_query
RECURSIVE parse_loop(_, _, _, _)
parse_loop(query, operator, qstr, depth) ==
  IF Len(qstr) = 0
  THEN [kind |-> "Ok", query |-> query]
  ELSE LET d == depth + 1
           t == take_up_to_operator(qstr)
       IN IF ~t.ok
          THEN [kind |-> "Ok", query |-> add_right(query, operator, Leaf(qstr))]
          ELSE LET q2 == add_right(query, operator, Leaf(t.matched))
                   m  == matchop(t.rest)
               IN IF m.res # "Ok"
                  THEN [kind |-> "Panic", query |-> q2]
                  ELSE IF d > DepthLimit
                       THEN [kind |-> "Panic", query |-> q2]
                       ELSE parse_loop(q2, m.op, m.rest, d)

\* parse_user_query; qpOk tells whether the engine's QueryParser accepts the
\* text it is handed (every failure of it leaves through `?`)
parse_user_query(qstr, qpOk) ==
  IF ~qpOk
  THEN [kind |-> "Err", query |-> Leaf(<<>>)]
  ELSE LET t == take_up_to_operator(qstr)
       IN IF ~t.ok
          THEN [kind |-> "Ok", query |-> Leaf(qstr)]
          ELSE LET m == matchop(t.rest)
               IN IF m.res # "Ok"
                  THEN [kind |-> "Panic", query |-> Leaf(t.matched)]
                  ELSE parse_loop(Leaf(t.matched), m.op, m.rest, 0)

\* main.rs match_op: complete tag_no_case, a too-short input is an Error
match_op_alts ==
  << [kw |-> <<"A","N","D"," ","N","O","T">>, op |-> "AndNot"],
     [kw |-> <<"A","N","D">>,                 op |-> "And"],
     [kw |-> <<"X","O","R">>,                 op |-> "Xor"],
     [kw |-> <<"O","R">>,                     op |-> "Or"] >>

RECURSIVE match_op_alt(_, _)
match_op_alt(k, s) ==
  IF k > Len(match_op_alts)
  THEN [res |-> "Error", op |-> "None", rest |-> s]
  ELSE IF tag_no_case(match_op_alts[k].kw, s).res = "Ok"
       THEN [res |-> "Ok", op |-> match_op_alts[k].op,
             rest |-> tag_no_case(match_op_alts[k].kw, s).rest]
       ELSE match_op_alt(k + 1, s)

match_op(s) == match_op_alt(1, s)

\* the while loop of main.rs's parse_user_query: query is an Option (has tells
\* Some from None), operator starts as None and then falls back to OpAnd
RECURSIVE main_parse_loop(_, _, _, _)
main_parse_loop(query, has, operator, qstr) ==
  IF Len(qstr) = 0
  THEN [kind |-> IF has THEN "Ok" ELSE "Panic", query |-> query]
  ELSE LET t    == take_up_to_operator(qstr)
           cur  == IF t.ok THEN t.matched ELSE qstr
           rest == IF t.ok THEN t.rest ELSE qstr
           op   == IF operator = "None" THEN "And" ELSE operator
           q2   == IF has THEN add_right(query, op, Leaf(cur)) ELSE Leaf(cur)
           m    == match_op(rest)
       IN IF m.res = "Ok"
          THEN main_parse_loop(q2, TRUE, m.op, m.rest)
          ELSE [kind |-> "Ok", query |-> q2]

\* main.rs's parse_user_query: the first parse_query is .expect()ed, and the
\* result is query.unwrap()
main_parse_user_query(qstr, qpOk) ==
  IF ~qpOk
  THEN [kind |-> "Panic", query |-> Leaf(<<>>)]
  ELSE main_parse_loop(Leaf(<<>>), FALSE, "None", qstr)

(***************************************************************************)
(* The lexers and the field tags (xapian_utils.rs).  All of them are nom   *)
(* streaming parsers: reaching the end of the input while a token could    *)
(* still go on is Incomplete, which every caller treats as a failure.      *)
(***************************************************************************)
IsAlnum(c) ==
  \/ c \in {"0","1","2","3","4","5","6","7","8","9"}
  \/ \E i \in 1..Len(UpperChars) : c = UpperChars[i] \/ c = LowerChars[i]
IsMultispace(c) == c \in {" ", "\n", "\t", "\r"}
\* the characters a lexer accepts: alphanumeric1 or "_" for word, those and
\* multispace1 for words, multispace for the whitespace lexers
InClass(cls, c) ==
  CASE cls = "word"  -> IsAlnum(c) \/ c = "_"
    [] cls = "words" -> IsAlnum(c) \/ c = "_" \/ IsMultispace(c)
    [] OTHER         -> IsMultispace(c)

\* the length of the longest prefix of s made of characters of a class
Run(s, cls) ==
  IF \A i \in 1..Len(s) : InClass(cls, s[i])
  THEN Len(s)
  ELSE (CHOOSE i \in 1..Len(s) :
          ~InClass(cls, s[i]) /\ \A j \in 1..(i - 1) : InClass(cls, s[j])) - 1

Incomplete == [res |-> "Incomplete", n |-> 0]
Error == [res |-> "Error", n |-> 0]
Ok(n) == [res |-> "Ok", n |-> n]

\* a streaming "one or more": a run that reaches the end of the input could
\* still go on, so it is Incomplete; n is the length of the match
Taken1(n, len) == IF n = len THEN Incomplete ELSE IF n = 0 THEN Error ELSE Ok(n)

\* word as a complete parser: a run that reaches the end of the input is a match
word_complete(s) ==
  IF Run(s, "word") = 0 THEN Error ELSE Ok(Run(s, "word"))

\* word: recognize(many1(alt((alphanumeric1, tag("_")))))
word(s) == Taken1(Run(s, "word"), Len(s))

\* words: recognize(many1(alt((multispace1, word))))
words(s) == Taken1(Run(s, "words"), Len(s))

\* multispace0: zero or more, still Incomplete at the end of the input
multispace0(s) == IF Run(s, "space") = Len(s) THEN Incomplete ELSE Ok(Run(s, "space"))

\* alt((p, q)): q is tried only when p is an Error
alt(p, q) == IF p.res = "Error" THEN q ELSE p

\* quoted, after the opening quote and the words w: the closing quote
quoted_close(s, w) ==
  IF w.res # "Ok" THEN w
  ELSE IF s[w.n + 2] = s[1] THEN Ok(w.n + 2) ELSE Error

\* quoted: a double- or single-quoted run of words, quotes included
quoted(s) ==
  IF Len(s) = 0 THEN Incomplete
  ELSE IF s[1] \notin {"\"", "'"} THEN Error
  ELSE quoted_close(s, words(Drop(s, 2)))

\* alt((quoted, word))
quoted_or_word(s) == alt(quoted(s), word(s))

\* tagged, after k characters and the multispace0 result m
tagged_space(k, m) == IF m.res # "Ok" THEN m ELSE Ok(k + m.n)

\* tagged, after `name:` of k characters and the value v
tagged_value(s, k, v) ==
  IF v.res # "Ok" THEN v
  ELSE tagged_space(k + v.n, multispace0(Drop(s, k + v.n + 1)))

\* tagged, after the name w
tagged_colon(s, w) ==
  IF w.res # "Ok" THEN w
  ELSE IF s[w.n + 1] # ":" THEN Error
  ELSE tagged_value(s, w.n + 1, quoted_or_word(Drop(s, w.n + 2)))

\* tagged: recognize(tuple((word, tag(":"), alt((quoted, word)), multispace0)))
tagged(s) == tagged_colon(s, word(s))

\* a to_xapian that gives the subtitle the prefix of the title
XapianTag_to_xapian_title ==
  [Author |-> "A", Date |-> "D", Filename |-> "F", Fullpath |-> "F",
   Title |-> "S", Subtitle |-> "S", Tag |-> "K"]

\* XapianTag::to_xapian
XapianTag_to_xapian ==
  [Author |-> "A", Date |-> "D", Filename |-> "F", Fullpath |-> "F",
   Title |-> "S", Subtitle |-> "XS", Tag |-> "K"]

\* XTag::to_xapian of main.rs
XTag_to_xapian ==
  [Author |-> "A", Date |-> "D", Filename |-> "F", Fullpath |-> "F",
   Title |-> "S", Subtitle |-> "XS", Tag |-> "K"]

\* the field names of XapianTag::parse, in the order alt tries them
TagNames ==
  << [kw |-> <<"f","i","l","e","n","a","m","e">>, tag |-> "Filename"],
     [kw |-> <<"f","u","l","l","p","a","t","h">>, tag |-> "Fullpath"],
     [kw |-> <<"s","u","b","t","i","t","l","e">>, tag |-> "Subtitle"],
     [kw |-> <<"a","u","t","h","o","r">>,         tag |-> "Author"],
     [kw |-> <<"t","i","t","l","e">>,             tag |-> "Title"],
     [kw |-> <<"d","a","t","e">>,                 tag |-> "Date"],
     [kw |-> <<"t","a","g">>,                     tag |-> "Tag"] >>

\* the alt over the field names: the next name is tried only on an Error
RECURSIVE tag_name_alt(_, _)
RECURSIVE tag_name_or_next(_, _, _)
tag_name_or_next(k, s, r) ==
  IF r.res = "Error"
  THEN tag_name_alt(k + 1, s)
  ELSE [res |-> r.res, tag |-> TagNames[k].tag, rest |-> r.rest]

tag_name_alt(k, s) ==
  IF k > Len(TagNames)
  THEN [res |-> "Error", tag |-> "None", rest |-> s]
  ELSE tag_name_or_next(k, s, tag_no_case(TagNames[k].kw, s))

NoTag == [ok |-> FALSE, tag |-> "None", value |-> <<>>, rest |-> <<>>]

\* XapianTag::parse, after the name t and the value v
XapianTag_value(t, v) ==
  IF v.res # "Ok" THEN NoTag
  ELSE [ok |-> TRUE, tag |-> t.tag,
        value |-> SubSeq(t.rest, 2, v.n + 1),
        rest |-> Drop(t.rest, v.n + 2)]

\* XapianTag::parse, after the name t
XapianTag_colon(t) ==
  IF t.res # "Ok" THEN NoTag
  ELSE IF Len(t.rest) = 0 \/ t.rest[1] # ":" THEN NoTag
  ELSE XapianTag_value(t, quoted_or_word(Drop(t.rest, 2)))

\* XapianTag::parse: separated_pair(alt(names), tag(":"), alt((quoted, word)))
XapianTag_parse(s) == XapianTag_colon(tag_name_alt(1, s))

\* expression: many1(alt((quoted, tagged, word, multispace1))); many1 ends
\* with what it has on an Error and fails on an Incomplete
RECURSIVE expression_from(_, _)
RECURSIVE expression_step(_, _, _)
expression_step(s, toks, r) ==
  IF r.res = "Incomplete" THEN [res |-> "Incomplete", tokens |-> toks]
  ELSE IF r.res = "Error"
       THEN [res |-> IF toks = <<>> THEN "Error" ELSE "Ok", tokens |-> toks]
       ELSE expression_from(Drop(s, r.n + 1), Append(toks, SubSeq(s, 1, r.n)))

expression_from(s, toks) ==
  expression_step(s, toks, alt(quoted(s), alt(tagged(s), alt(word(s), Taken1(Run(s, "space"), Len(s))))))

expression(s) == expression_from(s, <<>>)

\* whitespace: recognize(many1(complete multispace1))
whitespace(s) == Len(s) > 0 /\ IsMultispace(s[1])

\* qp.parse_query_with_prefix(value, flags, prefix)
PrefixLeaf(prefix, text) == [node |-> "leaf", text |-> text, prefix |-> prefix]

\* a match that takes the plain query whatever XapianTag::parse says
tag_or_plain_unscoped(token, p) == Leaf(token)

\* the match on XapianTag::parse(token)
tag_or_plain(token, p) ==
  IF p.ok THEN PrefixLeaf(XapianTag_to_xapian[p.tag], p.value) ELSE Leaf(token)

\* the query expression_into_query makes of one token
token_query(token) == tag_or_plain(token, XapianTag_parse(token))

\* the loop over the remaining tokens: whitespace is skipped, the rest OR-ed
RECURSIVE or_tokens(_, _, _)
or_tokens(query, toks, k) ==
  IF k > Len(toks) THEN query
  ELSE IF whitespace(toks[k]) THEN or_tokens(query, toks, k + 1)
       ELSE or_tokens(add_right(query, "Or", token_query(toks[k])), toks, k + 1)

\* expression_into_query, after the lexer
query_of_tokens(e, qpOk) ==
  IF e.res # "Ok" \/ ~qpOk
  THEN [kind |-> "Err", query |-> Leaf(<<>>)]
  ELSE [kind |-> "Ok", query |-> or_tokens(token_query(e.tokens[1]), e.tokens, 2)]

\* expression_into_query
expression_into_query(qstr, qpOk) == query_of_tokens(expression(qstr), qpOk)

(***************************************************************************)
(* Documents and the index.                                                *)
(***************************************************************************)
\* the page size handed to get_mset
PageSize == 100

\* a path is a directory and a file name; file names are numbered, 0 is ""
Path(n) == [dir |-> "notes", name |-> n]
\* OsString::default(), the value serde gives a skipped field
EmptyPath == [dir |-> "", name |-> 0]
\* PathBuf::file_name
file_name(path) == path.name

Wa == <<"a">>
Waa == <<"a", "a">>

\* YAML values of the front matter: a scalar is a string or an integer, a
\* sequence holds scalars
YStr(w) == [kind |-> "str", val |-> w]
YSeq(vs) == [kind |-> "seq", val |-> vs]

\* a visit_str that drops the string
string_or_list_string_none(v) ==
  IF v.kind = "str"
  THEN [ok |-> TRUE, val |-> <<>>]
  ELSE IF v.kind = "seq" /\ \A i \in 1..Len(v.val) : v.val[i].kind = "str"
       THEN [ok |-> TRUE, val |-> [i \in 1..Len(v.val) |-> v.val[i].val]]
       ELSE [ok |-> FALSE, val |-> <<>>]

\* string_or_list_string: deserialize_any with a visitor that has visit_str
\* (a one-element Vec) and visit_seq (the Vec<String> of the sequence); every
\* other value, and a sequence with an element that is no string, is an Err
string_or_list_string(v) ==
  IF v.kind = "str"
  THEN [ok |-> TRUE, val |-> <<v.val>>]
  ELSE IF v.kind = "seq" /\ \A i \in 1..Len(v.val) : v.val[i].kind = "str"
       THEN [ok |-> TRUE, val |-> [i \in 1..Len(v.val) |-> v.val[i].val]]
       ELSE [ok |-> FALSE, val |-> <<>>]

\* a Markdown file: where it is, whether it can be read, its front matter
\* (a block that parses, none, one that is not YAML, one without a required
\* field), the fields of the block and its body words
File(n, title, body) ==
  [path |-> Path(n), readable |-> TRUE, front |-> "ok", filename |-> 0,
   date |-> <<"d">>, tags |-> YSeq(<<>>), title |-> title, body |-> body]

\* the corpus the index is built from: one file more than a page holds;
\* every file has the word "aa", the first two also have the word "a"
Corpus ==
  [n \in 1..(PageSize + 1) |->
     File(n, Waa, IF n <= 2 THEN <<Wa, Waa>> ELSE <<Waa>>)]

\* parse_file: read_to_string leaves through `?`; parse_and_find_content and
\* serde_yaml::from_str are unwrapped, so a block that does not parse panics;
\* no block at all is an Err.  The front matter is deserialized (full_path
\* and body are skip_deserializing, so they start at their defaults),
\* filename falls back to the file name of the path, body is the content
\* after the front matter
parse_file(f) ==
  IF ~f.readable \/ (f.front = "none")
  THEN [ok |-> FALSE, panic |-> FALSE, doc |-> <<>>]
  ELSE IF f.front # "ok" \/ ~string_or_list_string(f.tags).ok
  THEN [ok |-> FALSE, panic |-> TRUE, doc |-> <<>>]
  ELSE [ok |-> TRUE, panic |-> FALSE,
        doc |-> [filename  |-> IF f.filename = 0 THEN file_name(f.path) ELSE f.filename,
                 full_path |-> EmptyPath,
                 date      |-> f.date,
                 tags      |-> string_or_list_string(f.tags).val,
                 title     |-> f.title,
                 body      |-> f.body]]

\* serde_json::to_string: every field is serialized
to_json(doc) == doc

\* serde_json::from_str: full_path and body are skip_deserializing
from_json(data) == [data EXCEPT !.full_path = EmptyPath, !.body = <<>>]

Term(prefix, text) == [prefix |-> prefix, word |-> text]

\* the prefix perform_index hands to index_text_with_prefix for each field
index_prefix ==
  [author |-> "A", date |-> "D", filename |-> "F", full_path |-> "F",
   title |-> "S", subtitle |-> "XS", tags |-> "K"]

\* the text of a field as index_text sees it: file names are numbered in the
\* model, a path is its directory and its file name
field_text(f, v) ==
  IF f = "filename"
  THEN <<ToString(v)>>
  ELSE IF f = "full_path"
       THEN (IF v = EmptyPath THEN <<>> ELSE <<v.dir, ToString(v.name)>>)
       ELSE v

\* the terms perform_index generates for a document: the text of each field
\* under the prefix of the field (one term per tag; an empty text gives no
\* term), the body without prefix
index_terms(doc) ==
  {Term(index_prefix[f], field_text(f, doc[f])) :
     f \in {g \in (DOMAIN index_prefix \ {"tags"}) \cap DOMAIN doc :
              field_text(g, doc[g]) # <<>>}}
  \cup (IF "tags" \in DOMAIN doc
        THEN {Term(index_prefix.tags, doc.tags[i]) : i \in 1..Len(doc.tags)}
        ELSE {})
  \cup {Term("", doc.body[i]) : i \in 1..Len(doc.body)}

\* a perform_index that adds a document whatever the index holds
perform_index_append(database, doc) ==
  Append(database, [id |-> <<"Q", doc.filename>>, data |-> to_json(doc),
                    terms |-> index_terms(doc)])

\* perform_index: replace_document under the identity term "Q" + filename
perform_index(database, doc) ==
  LET id == <<"Q", doc.filename>>
      entry == [id |-> id, data |-> to_json(doc), terms |-> index_terms(doc)]
  IN IF \E i \in 1..Len(database) : database[i].id = id
     THEN [i \in 1..Len(database) |->
             IF database[i].id = id THEN entry ELSE database[i]]
     ELSE Append(database, entry)

(***************************************************************************)
(* The Search Engine, as far as the program relies on it.                  *)
(***************************************************************************)
IsSpace(c) == c \in {SP, NL}

\* the whitespace-separated words of a text
RECURSIVE Words(_, _, _)
Words(s, k, cur) ==
  IF k > Len(s)
  THEN IF cur = <<>> THEN {} ELSE {cur}
  ELSE IF IsSpace(s[k])
       THEN (IF cur = <<>> THEN {} ELSE {cur}) \cup Words(s, k + 1, <<>>)
       ELSE Words(s, k + 1, Append(cur, s[k]))

\* the whitespace-separated words of a text, in order
RECURSIVE WordSeq(_, _, _)
WordSeq(s, k, cur) ==
  IF k > Len(s)
  THEN IF cur = <<>> THEN <<>> ELSE <<cur>>
  ELSE IF IsSpace(s[k])
       THEN (IF cur = <<>> THEN <<>> ELSE <<cur>>) \o WordSeq(s, k + 1, <<>>)
       ELSE WordSeq(s, k + 1, Append(cur, s[k]))

\* a word that is the keyword kw in any case (FlagBooleanAnyCase)
IsKeyword(w, kw) == Len(w) = Len(kw) /\ tag_no_case(kw, w).res = "Ok"

\* qp.parse_query with FlagBoolean on the words of a leaf, evaluated on a
\* document holding the words S: OR binds loosest, then XOR, then AND and
\* NOT, each left-associative; words without an operator are OR-ed
RECURSIVE qp_selects(_, _)
qp_selects(toks, S) ==
  LET n    == Len(toks)
      isA(i) == IsKeyword(toks[i], <<"A","N","D">>)
      isN(i) == IsKeyword(toks[i], <<"N","O","T">>)
      ors  == {i \in 1..n : IsKeyword(toks[i], <<"O","R">>)}
      xors == {i \in 1..n : IsKeyword(toks[i], <<"X","O","R">>)}
      ands == {i \in 1..n : isA(i) \/ (isN(i) /\ (i = 1 \/ ~isA(i - 1)))}
      last(I) == CHOOSE i \in I : \A j \in I : j <= i
      L(i) == qp_selects(SubSeq(toks, 1, i - 1), S)
      R(i) == qp_selects(SubSeq(toks, i + 1, n), S)
  IN IF ors # {}
     THEN L(last(ors)) \/ R(last(ors))
     ELSE IF xors # {}
     THEN L(last(xors)) # R(last(xors))
     ELSE IF ands # {}
     THEN LET i == last(ands)
          IN IF isN(i)
             THEN L(i) /\ ~R(i)
             ELSE IF i < n /\ isN(i + 1)
                  THEN L(i) /\ ~R(i + 1)
                  ELSE L(i) /\ R(i)
     ELSE \E i \in 1..n : toks[i] \in S

\* whether a query selects a document holding the words S
RECURSIVE Selects(_, _)
Selects(q, S) ==
  IF q.node = "leaf"
  THEN qp_selects(WordSeq(q.text, 1, <<>>), S)
  ELSE CASE q.op = "Or"       -> Selects(q.left, S) \/ Selects(q.right, S)
         [] q.op = "AndNot"   -> Selects(q.left, S) /\ ~Selects(q.right, S)
         [] q.op = "Xor"      -> Selects(q.left, S) # Selects(q.right, S)
         [] q.op = "AndMaybe" -> Selects(q.left, S)
         [] OTHER             -> Selects(q.left, S) /\ Selects(q.right, S)

\* the prefix of a leaf: the one parse_query_with_prefix was given, none for
\* parse_query (no prefix is ever registered with add_prefix, so the engine
\* reads `name:value` in a plain leaf as ordinary text)
leaf_prefix(q) == IF "prefix" \in DOMAIN q THEN q.prefix ELSE ""

\* a quoted value is looked up by the words between its quotes
Unquote(text) ==
  IF Len(text) >= 2 /\ text[1] \in {"\"", "'"} /\ text[Len(text)] = text[1]
  THEN SubSeq(text, 2, Len(text) - 1)
  ELSE text

\* the terms the engine looks up for each leaf of a query
RECURSIVE QueryTerms(_)
QueryTerms(q) ==
  IF q.node = "leaf"
  THEN [node |-> "leaf",
        terms |-> {Term(leaf_prefix(q), w) : w \in Words(Unquote(q.text), 1, <<>>)}]
  ELSE [node |-> "op", op |-> q.op,
        left |-> QueryTerms(q.left), right |-> QueryTerms(q.right)]

\* whether an index entry matches a query
RECURSIVE Matches(_, _)
Matches(q, e) ==
  IF q.node = "leaf"
  THEN q.terms \cap e.terms # {}
  ELSE CASE q.op = "Or"       -> Matches(q.left, e) \/ Matches(q.right, e)
         [] q.op = "AndNot"   -> Matches(q.left, e) /\ ~Matches(q.right, e)
         [] q.op = "Xor"      -> Matches(q.left, e) # Matches(q.right, e)
         [] q.op = "AndMaybe" -> Matches(q.left, e)
         [] OTHER             -> Matches(q.left, e) /\ Matches(q.right, e)

\* the entries of the index that match, in rank order
Ranked(q, database) ==
  LET qt == QueryTerms(q)
      hit(e) == Matches(qt, e)
  IN SelectSeq(database, hit)

\* a get_mset that returns every match, whatever maxitems says
get_mset_unpaged(q, database, first, maxitems) ==
  LET all == Ranked(q, database)
  IN SubSeq(all, first + 1, Len(all))

\* enq.get_mset(first, maxitems)
get_mset(q, database, first, maxitems) ==
  LET all == Ranked(q, database)
      last == IF Len(all) < first + maxitems THEN Len(all) ELSE first + maxitems
  IN SubSeq(all, first + 1, last)

\* query_db: a fresh list of the deserialized payloads of the first page;
\* dbOk tells whether the engine answers (every failure leaves through `?`)
query_db(q, database, dbOk) ==
  IF ~dbOk
  THEN [ok |-> FALSE, docs |-> <<>>]
  ELSE LET mset == get_mset(q, database, 0, PageSize)
       IN [ok |-> TRUE, docs |-> [i \in 1..Len(mset) |-> from_json(mset[i].data)]]

(***************************************************************************)
(* TerminalApp.                                                            *)
(***************************************************************************)
\* Option<usize>::None of ListState.selected
None == -1
\* usize::MAX, what `0 - 1` wraps to when overflow checks are off
UsizeMax == 2147483647

\* TerminalApp::get_selected; indexing past the end of matches panics
get_selected(ms, sel) ==
  IF sel = None
  THEN [panic |-> FALSE, ret |-> <<>>]
  ELSE IF sel >= Len(ms)
       THEN [panic |-> TRUE, ret |-> <<>>]
       ELSE [panic |-> FALSE, ret |-> <<ms[sel + 1].full_path>>]

\* `self.matches.len() - 1` on usize: with an empty list it panics when
\* overflow checks are on and wraps when they are off
len_minus_1(ms, checks) ==
  IF Len(ms) = 0
  THEN [panic |-> checks, v |-> UsizeMax]
  ELSE [panic |-> FALSE, v |-> Len(ms) - 1]

\* a next that steps past the last index before it wraps
next_nowrap(ms, sel, checks) ==
  IF sel = -1
  THEN [panic |-> FALSE, sel |-> 0]
  ELSE [panic |-> FALSE, sel |-> IF sel >= Len(ms) THEN 0 ELSE sel + 1]

\* TerminalApp::next
next(ms, sel, checks) ==
  IF sel = None
  THEN [panic |-> FALSE, sel |-> 0]
  ELSE LET l == len_minus_1(ms, checks)
       IN IF l.panic
          THEN [panic |-> TRUE, sel |-> sel]
          ELSE [panic |-> FALSE, sel |-> IF sel >= l.v THEN 0 ELSE sel + 1]

\* TerminalApp::previous
previous(ms, sel, checks) ==
  IF sel = None
  THEN [panic |-> FALSE, sel |-> 0]
  ELSE IF sel = 0
       THEN LET l == len_minus_1(ms, checks)
            IN [panic |-> l.panic, sel |-> IF l.panic THEN sel ELSE l.v]
       ELSE [panic |-> FALSE, sel |-> sel - 1]

(***************************************************************************)
(* State.                                                                  *)
(***************************************************************************)
VARIABLES
  db,             \* the index: a sequence of [id, data, terms] entries
  indexed,        \* how many entries of the glob the indexing run has handled
  checks,         \* whether the build checks integer overflow
  input,          \* TerminalApp.input
  matches,        \* TerminalApp.matches
  selected,       \* TerminalApp.state.selected(), None or an index
  pc,             \* main: Indexing, then interactive_query: Editing, Exited
                  \* (Ok), Failed (Err) or Panicked
  result,         \* the Vec<String> interactive_query yields
  chan,           \* the mpsc channel of Events
  rxDropped,      \* the Receiver is gone (interactive_query has returned)
  inputThread,    \* the input thread: running or stopped
  tickThread,     \* the tick thread: running or stopped
  ticksSent,      \* ticks sent so far
  sentCount,      \* history: how many keys the input thread has read and sent
  deliveredCount, \* history: how many keys events.next() has handed to the loop
  lastDelivered,  \* history: the number of the key handed to the loop last
  lastEvent,      \* history: the event the loop handled last
  prevSel,        \* history: the selection before the event handled last
  parsed,         \* history: the last step called parse_user_query: no, ok,
                  \* err or panic
  queried,        \* history: the last step called query_db: no, ok or err
  intrRead,       \* history: the input thread has read Ctrl-C
  queryAfterIntr, \* history: a query was started after Ctrl-C was read
  qops, qnl,      \* the generated query: its operators, with a final newline
  qin,            \* the query string handed to parse_user_query
  qout,           \* what parse_user_query returned
  ppc             \* start, or done: which parser has returned

appvars == <<input, matches, selected>>
loopvars == <<pc, result, rxDropped, lastEvent, prevSel, parsed, queried, queryAfterIntr>>
chanvars == <<chan, sentCount, deliveredCount, lastDelivered>>
threadvars == <<inputThread, tickThread, ticksSent, intrRead>>
envvars == <<db, indexed, checks>>
pvars == <<qops, qnl, qin, qout, ppc>>
vars == <<envvars, appvars, loopvars, chanvars, threadvars, pvars>>

\* the keys of termion the loop tells apart; Left stands for every other key
Chars == {"a"}
Keys == Chars \cup {"Enter", "CtrlC", "Backspace", "Down", "Up", "Left"}

\* Event::Input(key) and Event::Tick; seq is history: the position of the key
\* in the order the input thread read the keys (0 for a tick)
InputEv(k, n) == [type |-> "Input", key |-> k, seq |-> n]
TickEv == [type |-> "Tick", key |-> "none", seq |-> 0]

\* a channel that hands out the newest event first
send_front(ch, ev) == <<ev>> \o ch

\* mpsc::Sender::send: the event goes to the back of the queue
send(ch, ev) == Append(ch, ev)

\* the numbers of the keys among the events of a channel, in queue order
RECURSIVE KeysOf(_)
KeysOf(ch) ==
  IF ch = <<>>
  THEN <<>>
  ELSE (IF Head(ch).type = "Input" THEN <<Head(ch).seq>> ELSE <<>>) \o KeysOf(Tail(ch))

NoQuery == [kind |-> "None", query |-> Leaf(<<>>)]

\* main before the indexing run; TerminalApp::default()
Init ==
  /\ db = <<>>
  /\ indexed = 0
  /\ checks \in BOOLEAN
  /\ input = <<>>
  /\ matches = <<>>
  /\ selected = None
  /\ pc = "Indexing"
  /\ result = <<>>
  /\ chan = <<>>
  /\ rxDropped = FALSE
  /\ inputThread = "unstarted"
  /\ tickThread = "unstarted"
  /\ ticksSent = 0
  /\ sentCount = 0
  /\ deliveredCount = 0
  /\ lastDelivered = 0
  /\ lastEvent = "none"
  /\ prevSel = None
  /\ parsed = "no"
  /\ queried = "no"
  /\ intrRead = FALSE
  /\ queryAfterIntr = FALSE
  /\ qops = <<>>
  /\ qnl = FALSE
  /\ qin = <<>>
  /\ qout = NoQuery
  /\ ppc = "idle"

(***************************************************************************)
(* The indexing run of main.                                               *)
(***************************************************************************)
\* one entry of the glob: a file that parses is indexed, another is reported
IndexEntry ==
  /\ pc = "Indexing"
  /\ indexed < Len(Corpus)
  /\ LET p == parse_file(Corpus[indexed + 1])
     IN db' = IF p.ok THEN perform_index(db, p.doc) ELSE db
  /\ indexed' = indexed + 1
  /\ UNCHANGED <<checks, appvars, loopvars, chanvars, threadvars, pvars>>

\* db.commit(), then interactive_query starts: Events::new() spawns the threads
Commit ==
  /\ pc = "Indexing"
  /\ indexed = Len(Corpus)
  /\ pc' = "Editing"
  /\ inputThread' = "running"
  /\ tickThread' = "running"
  /\ UNCHANGED <<envvars, appvars, result, rxDropped, lastEvent, prevSel, parsed,
                 queried, queryAfterIntr, chanvars, ticksSent, intrRead, pvars>>

(***************************************************************************)
(* The event threads of Events::with_config.                               *)
(***************************************************************************)
\* the input thread reads a key and sends it
InputThreadSend(k) ==
  /\ inputThread = "running"
  /\ ~rxDropped
  /\ sentCount < MaxKeys
  /\ Len(chan) < MaxChan
  /\ chan' = send(chan, InputEv(k, sentCount + 1))
  /\ sentCount' = sentCount + 1
  /\ intrRead' = (intrRead \/ k = "CtrlC")
  /\ UNCHANGED <<envvars, appvars, loopvars, deliveredCount, lastDelivered,
                 inputThread, tickThread, ticksSent, pvars>>

\* the input thread reads a key, the send fails, the thread returns
InputThreadStop ==
  /\ inputThread = "running"
  /\ rxDropped
  /\ inputThread' = "stopped"
  /\ UNCHANGED <<envvars, appvars, loopvars, chanvars, tickThread, ticksSent,
                 intrRead, pvars>>

\* the tick thread sends a tick, then sleeps
TickThreadSend ==
  /\ tickThread = "running"
  /\ ~rxDropped
  /\ ticksSent < MaxTicks
  /\ Len(chan) < MaxChan
  /\ chan' = send(chan, TickEv)
  /\ ticksSent' = ticksSent + 1
  /\ UNCHANGED <<envvars, appvars, loopvars, sentCount, deliveredCount,
                 lastDelivered, inputThread, tickThread, intrRead, pvars>>

\* the send of the tick thread fails, the thread breaks out of its loop
TickThreadStop ==
  /\ tickThread = "running"
  /\ rxDropped
  /\ tickThread' = "stopped"
  /\ UNCHANGED <<envvars, appvars, loopvars, chanvars, inputThread, ticksSent,
                 intrRead, pvars>>

(***************************************************************************)
(* The loop of interactive_query (tui_app.rs).                             *)
(***************************************************************************)
\* events.next(): the event at the front of the channel is taken
Recv(type, key) ==
  /\ pc = "Editing"
  /\ chan # <<>>
  /\ Head(chan).type = type
  /\ Head(chan).key = key
  /\ deliveredCount' = IF type = "Input" THEN deliveredCount + 1 ELSE deliveredCount
  /\ lastDelivered' = IF type = "Input" THEN Head(chan).seq ELSE lastDelivered
  /\ lastEvent' = IF type = "Tick" THEN "Tick"
                  ELSE IF key \in Chars THEN "Char" ELSE key
  /\ prevSel' = selected
  /\ UNCHANGED <<envvars, threadvars, sentCount, pvars>>

\* the event leaves the queue; when interactive_query returns in this step the
\* Receiver is dropped, and the events still queued with it
Dequeue == chan' = IF rxDropped' THEN <<>> ELSE Tail(chan)

\* the code after the match on the key: parse the buffer plus "\n", query the
\* index, store the new list; `?` on either call returns the error
Requery(input1, sel1, qpOk, dbOk) ==
  LET pr == parse_user_query(input1 \o <<NL>>, qpOk)
      qr == query_db(pr.query, db, dbOk)
  IN /\ input' = input1
     /\ selected' = sel1
     /\ parsed' = IF pr.kind = "Ok" THEN "ok"
                  ELSE IF pr.kind = "Err" THEN "err" ELSE "panic"
     /\ result' = result
     /\ IF pr.kind = "Panic"
        THEN /\ pc' = "Panicked"
             /\ queried' = "no"
             /\ matches' = matches
        ELSE IF pr.kind = "Err"
        THEN /\ pc' = "Failed"
             /\ queried' = "no"
             /\ matches' = matches
        ELSE IF ~qr.ok
        THEN /\ pc' = "Failed"
             /\ queried' = "err"
             /\ matches' = matches
        ELSE /\ pc' = "Editing"
             /\ queried' = "ok"
             /\ matches' = qr.docs
     /\ rxDropped' = (pc' # "Editing")
     /\ queryAfterIntr' = (queryAfterIntr \/ (intrRead /\ queried' # "no"))

\* a panic before the query is reached
PanicNow ==
  /\ pc' = "Panicked"
  /\ rxDropped' = TRUE
  /\ parsed' = "no"
  /\ queried' = "no"
  /\ UNCHANGED <<appvars, result, queryAfterIntr>>

\* break, then Ok(app.get_selected())
Leave ==
  LET g == get_selected(matches, selected)
  IN /\ pc' = IF g.panic THEN "Panicked" ELSE "Exited"
     /\ result' = g.ret
     /\ rxDropped' = TRUE
     /\ parsed' = "no"
     /\ queried' = "no"
     /\ UNCHANGED <<appvars, queryAfterIntr>>

\* a tick that falls through to the parse and the query like a key
OnTick_requery ==
  /\ Recv("Tick", "none")
  /\ \E qpOk, dbOk \in BOOLEAN : Requery(input, selected, qpOk, dbOk)
  /\ Dequeue

\* Event::Tick: nothing but the redraw
OnTick ==
  /\ Recv("Tick", "none")
  /\ parsed' = "no"
  /\ queried' = "no"
  /\ UNCHANGED <<appvars, pc, result, rxDropped, queryAfterIntr>>
  /\ Dequeue

\* Key::Char('\n')
OnEnter ==
  /\ Recv("Input", "Enter")
  /\ Leave
  /\ Dequeue

\* a Ctrl-C that falls through to the parse and the query like any other key
OnCtrlC_requery ==
  /\ Recv("Input", "CtrlC")
  /\ \E qpOk, dbOk \in BOOLEAN : Requery(input, selected, qpOk, dbOk)
  /\ Dequeue

\* Key::Ctrl('c')
OnCtrlC ==
  /\ Recv("Input", "CtrlC")
  /\ Leave
  /\ Dequeue

\* Key::Char(c)
OnChar(c, qpOk, dbOk) ==
  /\ Recv("Input", c)
  /\ Requery(Append(input, c), selected, qpOk, dbOk)
  /\ Dequeue

\* String::pop
pop(s) == IF s = <<>> THEN s ELSE SubSeq(s, 1, Len(s) - 1)

\* Key::Backspace
OnBackspace(qpOk, dbOk) ==
  /\ Recv("Input", "Backspace")
  /\ Requery(pop(input), selected, qpOk, dbOk)
  /\ Dequeue

\* Key::Down
OnDown(qpOk, dbOk) ==
  /\ Recv("Input", "Down")
  /\ LET n == next(matches, selected, checks)
     IN IF n.panic THEN PanicNow ELSE Requery(input, n.sel, qpOk, dbOk)
  /\ Dequeue

\* Key::Up
OnUp(qpOk, dbOk) ==
  /\ Recv("Input", "Up")
  /\ LET p == previous(matches, selected, checks)
     IN IF p.panic THEN PanicNow ELSE Requery(input, p.sel, qpOk, dbOk)
  /\ Dequeue

\* any other key
OnOtherKey(qpOk, dbOk) ==
  /\ Recv("Input", "Left")
  /\ Requery(input, selected, qpOk, dbOk)
  /\ Dequeue

Next ==
  \/ IndexEntry
  \/ Commit
  \/ \E k \in Keys : InputThreadSend(k)
  \/ InputThreadStop
  \/ TickThreadSend
  \/ TickThreadStop
  \/ OnTick
  \/ OnEnter
  \/ OnCtrlC
  \/ \E c \in Chars, qpOk \in BOOLEAN, dbOk \in BOOLEAN : OnChar(c, qpOk, dbOk)
  \/ \E qpOk \in BOOLEAN, dbOk \in BOOLEAN : OnBackspace(qpOk, dbOk)
  \/ \E qpOk \in BOOLEAN, dbOk \in BOOLEAN : OnDown(qpOk, dbOk)
  \/ \E qpOk \in BOOLEAN, dbOk \in BOOLEAN : OnUp(qpOk, dbOk)
  \/ \E qpOk \in BOOLEAN, dbOk \in BOOLEAN : OnOtherKey(qpOk, dbOk)

Spec == Init /\ [][Next]_vars

(***************************************************************************)
(* parse_user_query on generated query strings.                            *)
(***************************************************************************)
\* the spellings an operator is written with, and the operator each stands for
OpSpellings ==
  << [text |-> <<"A","N","D">>,                         op |-> "And"],
     [text |-> <<"O","R">>,                             op |-> "Or"],
     [text |-> <<"X","O","R">>,                         op |-> "Xor"],
     [text |-> <<"A","N","D"," ","N","O","T">>,         op |-> "AndNot"],
     [text |-> <<"a","n","d">>,                         op |-> "And"],
     [text |-> <<"o","r">>,                             op |-> "Or"],
     [text |-> <<"x","o","r">>,                         op |-> "Xor"],
     [text |-> <<"a","n","d"," ","n","o","t">>,         op |-> "AndNot"],
     [text |-> <<"A","N","D"," ","M","A","Y","B","E">>, op |-> "AndMaybe"] >>

\* the terms of a generated query, by position
TermNames == <<"a", "b", "c", "d", "e", "f">>

\* the text `t1 op1 t2 ... tN`, single spaces between the tokens
RECURSIVE RenderOps(_, _)
RenderOps(ops, k) ==
  IF k = 0
  THEN <<TermNames[1]>>
  ELSE RenderOps(ops, k - 1) \o <<SP>> \o OpSpellings[ops[k]].text
       \o <<SP, TermNames[k + 1]>>

Render(ops, nl) == RenderOps(ops, Len(ops)) \o (IF nl THEN <<NL>> ELSE <<>>)

OpLists == UNION {[1..n -> 1..Len(OpSpellings)] : n \in 0..MaxOps}

InitParse ==
  /\ db = <<>>
  /\ indexed = 0
  /\ checks = FALSE
  /\ input = <<>>
  /\ matches = <<>>
  /\ selected = None
  /\ pc = "Idle"
  /\ result = <<>>
  /\ chan = <<>>
  /\ rxDropped = FALSE
  /\ inputThread = "unstarted"
  /\ tickThread = "unstarted"
  /\ ticksSent = 0
  /\ sentCount = 0
  /\ deliveredCount = 0
  /\ lastDelivered = 0
  /\ lastEvent = "none"
  /\ prevSel = None
  /\ parsed = "no"
  /\ queried = "no"
  /\ intrRead = FALSE
  /\ queryAfterIntr = FALSE
  /\ qops \in OpLists
  /\ qnl \in BOOLEAN
  /\ qin = Render(qops, qnl)
  /\ qout = NoQuery
  /\ ppc = "start"

\* a call of parse_user_query
ParseQuery(qpOk) ==
  /\ ppc = "start"
  /\ qout' = parse_user_query(qin, qpOk)
  /\ ppc' = "done"
  /\ UNCHANGED <<envvars, appvars, loopvars, chanvars, threadvars, qops, qnl, qin>>

NextParse == \E qpOk \in BOOLEAN : ParseQuery(qpOk)

SpecParse == InitParse /\ [][NextParse]_vars

(***************************************************************************)
(* Properties of the interactive loop (checked under Spec).                *)
(***************************************************************************)
\* the path of the file a document was indexed from
SourcePath(doc) ==
  Corpus[CHOOSE i \in 1..Len(Corpus) : file_name(Corpus[i].path) = doc.filename].path

\* C1: when the user accepts (Enter) while a result is selected, the loop ends
\* and yields the full path of the file the selected document was indexed
\* from; with nothing selected it yields an empty result.
C1_AcceptYieldsFullPath ==
  (pc = "Exited" /\ lastEvent = "Enter") =>
    IF selected = None
    THEN result = <<>>
    ELSE result = <<SourcePath(matches[selected + 1])>>

\* C2: with a non-empty result list and a selected index i, next() selects
\* i+1, or 0 from the last index; previous() selects i-1, or the last index
\* from 0; the query buffer and the result list stay as they are.
C2_NextPreviousWrap ==
  [][ ( /\ deliveredCount' = deliveredCount + 1
        /\ Len(matches) > 0
        /\ selected \in 0..(Len(matches) - 1) ) =>
      ( /\ lastEvent' = "Down" =>
             /\ selected' = IF selected = Len(matches) - 1 THEN 0 ELSE selected + 1
             /\ input' = input
             /\ matches' = matches
        /\ lastEvent' = "Up" =>
             /\ selected' = IF selected = 0 THEN Len(matches) - 1 ELSE selected - 1
             /\ input' = input
             /\ matches' = matches ) ]_vars

\* C2 happens: Down was handled on the last of at least two results and the
\* selection wrapped to the first
C2_Witness ==
  /\ lastEvent = "Down"
  /\ Len(matches) >= 2
  /\ prevSel = Len(matches) - 1
  /\ selected = 0

\* C3: a navigate-up or navigate-down event never triggers a parse or a
\* Search Engine query.
C3_NavigationNeverRequeries ==
  lastEvent \in {"Down", "Up"} => (parsed = "no" /\ queried = "no")

\* the index entries that hold a word of the buffer, and the rank of one
HitIndexes(buf) ==
  LET W == Words(buf, 1, <<>>)
  IN {i \in 1..Len(db) : \E w \in W : [prefix |-> "", word |-> w] \in db[i].terms}
RankOf(I, i) == Cardinality({j \in I : j <= i})

\* C4: after a character-insert or backspace event whose query succeeds, the
\* result list is exactly the engine's ranked result for the buffer as it is
\* after the mutation, cut to the page size of 100; the old list is replaced.
C4_ResultsReplacedByPage ==
  (lastEvent \in {"Char", "Backspace"} /\ queried = "ok") =>
    LET I == HitIndexes(input)
    IN /\ Len(matches) = IF Cardinality(I) < 100 THEN Cardinality(I) ELSE 100
       /\ \A i \in I : RankOf(I, i) <= 100 =>
            matches[RankOf(I, i)].filename = db[i].data.filename

\* C4 happens: a second character was typed, the two results of the first
\* query gave way to a full page of the 101 documents that match now
C4_Witness ==
  /\ lastEvent = "Char"
  /\ queried = "ok"
  /\ input = <<"a", "a">>
  /\ Len(matches) = 100
  /\ Cardinality(HitIndexes(input)) = 101

\* C5: when parsing the buffer fails, the loop stays in Editing, submits no
\* query for that event and goes on accepting events.
C5_SyntaxErrorKeepsEditing ==
  parsed = "err" => (pc = "Editing" /\ queried = "no")

\* C6: when the Search Engine fails on a query, the result list becomes empty
\* and the loop continues in Editing.
C6_EngineErrorClearsAndContinues ==
  queried = "err" => (pc = "Editing" /\ matches = <<>>)

\* C7 as claimed: no Search Engine query is started between the moment the
\* interrupt (Ctrl-C) occurs and the exit of the loop, whatever keys came
\* before it.
C7_NoQueryAfterInterrupt == ~queryAfterIntr

\* C7 as amended: when the loop takes the interrupt event from the channel it
\* leaves the loop in that step, without parsing and without a query.
C7_CancelLeavesWithoutQuery ==
  lastEvent = "CtrlC" =>
    (pc \in {"Exited", "Panicked"} /\ parsed = "no" /\ queried = "no")

\* C7 happens: the loop left on Ctrl-C, after a key queued ahead of it had
\* still been handled with its query
C7_Witness ==
  /\ lastEvent = "CtrlC"
  /\ pc = "Exited"
  /\ queryAfterIntr

\* C8: key events reach the loop in the order the input thread read them,
\* each exactly once, however the ticks interleave: the keys still queued are
\* the ones read after the last delivered key, in reading order.
C8_KeysInOrderOnce ==
  /\ lastDelivered = deliveredCount
  /\ pc = "Editing" =>
       KeysOf(chan) = [i \in 1..(sentCount - deliveredCount) |-> deliveredCount + i]

\* C8 happens: two keys were delivered, a tick and then a third key are queued
C8_Witness ==
  /\ pc = "Editing"
  /\ lastDelivered = 2
  /\ Len(chan) = 2
  /\ chan[1].type = "Tick"
  /\ chan[2].type = "Input"

(***************************************************************************)
(* Properties of parse_user_query (checked under SpecParse).               *)
(***************************************************************************)
\* a text without its leading and trailing whitespace
TrimText(s) ==
  LET idx == {i \in 1..Len(s) : ~IsSpace(s[i])}
  IN IF idx = {}
     THEN <<>>
     ELSE SubSeq(s, CHOOSE i \in idx : \A j \in idx : i <= j,
                    CHOOSE i \in idx : \A j \in idx : i >= j)

\* a query with the text of every leaf trimmed
RECURSIVE TrimLeaves(_)
TrimLeaves(q) ==
  IF q.node = "leaf"
  THEN Leaf(TrimText(q.text))
  ELSE add_right(TrimLeaves(q.left), q.op, TrimLeaves(q.right))

\* the strictly left-nested tree ((t1 op1 t2) op2 t3) ... of a generated query
RECURSIVE LeftNested(_, _)
LeftNested(ops, k) ==
  IF k = 0
  THEN Leaf(<<TermNames[1]>>)
  ELSE add_right(LeftNested(ops, k - 1), OpSpellings[ops[k]].op,
                 Leaf(<<TermNames[k + 1]>>))

\* C9: for a query t1 op1 t2 ... tN, parse_user_query builds the strictly
\* left-nested tree, each term combined by the operator right before it; so
\* the query it returns selects exactly the documents that tree selects.
C9_StrictlyLeftNested ==
  (ppc = "done" /\ qout.kind = "Ok" /\ \A k \in 1..Len(qops) : OpSpellings[qops[k]].op # "AndMaybe") =>
    \A S \in SUBSET {<<TermNames[k]>> : k \in 1..(Len(qops) + 1)} :
      Selects(qout.query, S) = Selects(LeftNested(qops, Len(qops)), S)

\* no AND node of the chain has a right operand that starts with NOT or MAYBE
RECURSIVE NoDanglingKeyword(_)
NoDanglingKeyword(q) ==
  IF q.node = "leaf"
  THEN TRUE
  ELSE /\ q.op = "And" =>
            /\ tag_no_case(<<"N","O","T">>, TrimText(q.right.text)).res # "Ok"
            /\ tag_no_case(<<"M","A","Y","B","E">>, TrimText(q.right.text)).res # "Ok"
       /\ NoDanglingKeyword(q.left)

\* C10: `t1 AND NOT t2` parses to exactly one AND-NOT combination of the two
\* terms; AND is never consumed alone, leaving NOT (or MAYBE) at the head of
\* the next term: the longer keyword is tried before its prefix AND.
C10_AndNotBeforeAnd ==
  (ppc = "done" /\ qout.kind = "Ok") =>
    /\ NoDanglingKeyword(qout.query)
    /\ (Len(qops) = 1 /\ OpSpellings[qops[1]].op = "AndNot") =>
         TrimLeaves(qout.query) = add_right(Leaf(<<"a">>), "AndNot", Leaf(<<"b">>))

\* C10 happens: `a AND NOT b` was parsed into an AND-NOT node
C10_Witness ==
  /\ ppc = "done"
  /\ qin = <<"a", " ", "A", "N", "D", " ", "N", "O", "T", " ", "b">>
  /\ qout.kind = "Ok"
  /\ qout.query.node = "op"
  /\ qout.query.op = "AndNot"

(***************************************************************************)
(* parse_user_query on one operator keyword between two terms, in every    *)
(* letter case (SpecKeyword).  Here qops is <<k>>, the keyword being the    *)
(* k-th alternative of matchop.                                            *)
(***************************************************************************)
\* everything but the parser at rest
IdleProgram ==
  /\ db = <<>>
  /\ indexed = 0
  /\ checks = FALSE
  /\ input = <<>>
  /\ matches = <<>>
  /\ selected = None
  /\ pc = "Idle"
  /\ result = <<>>
  /\ chan = <<>>
  /\ rxDropped = FALSE
  /\ inputThread = "unstarted"
  /\ tickThread = "unstarted"
  /\ ticksSent = 0
  /\ sentCount = 0
  /\ deliveredCount = 0
  /\ lastDelivered = 0
  /\ lastEvent = "none"
  /\ prevSel = None
  /\ parsed = "no"
  /\ queried = "no"
  /\ intrRead = FALSE
  /\ queryAfterIntr = FALSE

\* a keyword with the letters at the positions of mask in upper case
Cased(kw, mask) == [i \in 1..Len(kw) |-> IF mask[i] THEN kw[i] ELSE to_lowercase(kw[i])]

\* `a <keyword> b`, with or without the final newline
KeywordInput(k, mask, nl) ==
  <<"a", SP>> \o Cased(MatchOps[k].kw, mask) \o <<SP, "b">>
  \o (IF nl THEN <<NL>> ELSE <<>>)

AllUpper(k) == [i \in 1..Len(MatchOps[k].kw) |-> TRUE]

InitKeyword ==
  /\ IdleProgram
  /\ \E k \in 1..Len(MatchOps) :
       \E mask \in [1..Len(MatchOps[k].kw) -> BOOLEAN] :
         /\ qops = <<k>>
         /\ qnl \in BOOLEAN
         /\ qin = KeywordInput(k, mask, qnl)
  /\ qout = NoQuery
  /\ ppc = "start"

NextKeyword == \E qpOk \in BOOLEAN : ParseQuery(qpOk)

SpecKeyword == InitKeyword /\ [][NextKeyword]_vars

\* the two terms combined by the k-th operator
TwoTerms(k) == add_right(Leaf(<<"a">>), MatchOps[k].op, Leaf(<<"b">>))

\* C11: in every letter case of AND, OR, XOR and AND NOT between two terms,
\* parse_user_query splits at the keyword and combines the two terms with
\* that operator, as it does for the upper-case spelling; so the query it
\* returns selects the documents the upper-case spelling selects.
C11_KeywordsInAnyCase ==
  (ppc = "done" /\ qout.kind = "Ok"
     /\ MatchOps[qops[1]].op \in {"And", "Or", "Xor", "AndNot"}) =>
    \A S \in SUBSET {<<"a">>, <<"b">>} :
      Selects(qout.query, S) = Selects(TwoTerms(qops[1]), S)

\* C12: every keyword of the operator set, typed in upper case between two
\* terms, is recognized by parse_user_query and combines the two terms with
\* the combinator of that keyword.
C12_EveryKeywordCombines ==
  (ppc = "done" /\ qout.kind = "Ok"
     /\ qin = KeywordInput(qops[1], AllUpper(qops[1]), qnl)) =>
    TrimLeaves(qout.query) = TwoTerms(qops[1])

(***************************************************************************)
(* The two parse_user_query on short texts made of terms, blanks, operator *)
(* keywords and quotes (SpecText).  Here qops is the list of tokens the     *)
(* text is made of.                                                        *)
(***************************************************************************)
\* tokens in a generated text
MaxTokens == 4

QUOTE == "\""

Tokens ==
  << <<"a">>, <<SP>>, <<"A","N","D">>, <<"o","r">>, <<NL>>, <<QUOTE>>,
     <<"_","1">> >>

RECURSIVE Flatten(_, _)
Flatten(toks, k) ==
  IF k = 0 THEN <<>> ELSE Flatten(toks, k - 1) \o Tokens[toks[k]]

TokenLists == UNION {[1..n -> 1..Len(Tokens)] : n \in 0..MaxTokens}

InitText ==
  /\ IdleProgram
  /\ qops \in TokenLists
  /\ qnl = FALSE
  /\ qin = Flatten(qops, Len(qops))
  /\ qout = NoQuery
  /\ ppc = "start"

\* a call of main.rs's parse_user_query
ParseMain(qpOk) ==
  /\ ppc = "start"
  /\ qout' = main_parse_user_query(qin, qpOk)
  /\ ppc' = "done_main"
  /\ UNCHANGED <<envvars, appvars, loopvars, chanvars, threadvars, qops, qnl, qin>>

\* the `word` lexer applied to the text, as the lexer tests apply it: the
\* outcome, the matched fragment and the rest
LexWord ==
  /\ ppc = "start"
  /\ qout' = [kind |-> word(qin).res,
              query |-> Leaf(SubSeq(qin, 1, word(qin).n)),
              rest |-> Drop(qin, word(qin).n + 1)]
  /\ ppc' = "lexed"
  /\ UNCHANGED <<envvars, appvars, loopvars, chanvars, threadvars, qops, qnl, qin>>

NextText ==
  \/ \E qpOk \in BOOLEAN : ParseQuery(qpOk)
  \/ \E qpOk \in BOOLEAN : ParseMain(qpOk)
  \/ LexWord

SpecText == InitText /\ [][NextText]_vars

\* a word that is exactly one operator keyword, in any case
IsOperatorWord(w) == matchop(w).res = "Ok" /\ matchop(w).rest = <<>>

\* the first word of a text is an operator keyword
LeadingOperator(s) ==
  LET ws == WordSeq(s, 1, <<>>)
  IN Len(ws) > 0 /\ IsOperatorWord(ws[1])

\* C13: when the first non-whitespace token of a query is an operator, parsing
\* reports an error: no query is built on an empty or default left operand.
C13_LeadingOperatorIsError ==
  (ppc \in {"done", "done_main"} /\ LeadingOperator(qin)) => qout.kind # "Ok"

\* C14: parsing the empty string fails neither with an error nor with a
\* panic: it returns a query that matches every document (the engine itself
\* failing is left aside).
C14_EmptyMatchesEverything ==
  (ppc \in {"done", "done_main"} /\ qin = <<>> /\ qout.kind # "Err") =>
    /\ qout.kind = "Ok"
    /\ \A S \in SUBSET {<<"a">>} : Selects(qout.query, S)

\* the text holds a quote that is never closed
UnterminatedQuote(s) == Cardinality({i \in 1..Len(s) : s[i] = QUOTE}) % 2 = 1

\* C15: parsing a query with an opening quote and no closing quote ends in a
\* parse error value: it is not accepted as a query and it does not panic.
C15_UnterminatedQuoteIsError ==
  (ppc = "done" /\ UnterminatedQuote(qin)) => qout.kind = "Err"

\* C16: for every input, parse_user_query returns a query or an error value;
\* no input makes it panic.
C16_ParserNeverPanics ==
  ppc \in {"done", "done_main"} => qout.kind # "Panic"

(***************************************************************************)
(* parse_user_query on long chains `a op a op ... a` (SpecDepth).  Here     *)
(* qops holds one entry per operator of the chain.                         *)
(***************************************************************************)
\* operators in the longest chain
MaxChain == 54

\* the operator spellings of the chains: the first and the last pattern of
\* take_up_to_operator
ChainSpellings == << <<"A","N","D"," ","N","O","T">>, <<"o","r">> >>

RECURSIVE ChainText(_, _)
ChainText(n, sp) ==
  IF n = 0
  THEN <<"a">>
  ELSE ChainText(n - 1, sp) \o <<SP>> \o sp \o <<SP, "a">>

InitDepth ==
  /\ IdleProgram
  /\ \E n \in 0..MaxChain : \E k \in 1..Len(ChainSpellings) :
       /\ qops = [i \in 1..n |-> k]
       /\ qnl \in BOOLEAN
       /\ qin = ChainText(n, ChainSpellings[k]) \o (IF qnl THEN <<NL>> ELSE <<>>)
  /\ qout = NoQuery
  /\ ppc = "start"

NextDepth == \E qpOk \in BOOLEAN : ParseQuery(qpOk)

SpecDepth == InitDepth /\ [][NextDepth]_vars

\* the number of leaves of a query, and whether each is the term `a`
RECURSIVE CountLeaves(_)
CountLeaves(q) ==
  IF q.node = "leaf" THEN 1 ELSE CountLeaves(q.left) + CountLeaves(q.right)

RECURSIVE EveryLeafIsTerm(_)
EveryLeafIsTerm(q) ==
  IF q.node = "leaf"
  THEN TrimText(q.text) = <<"a">>
  ELSE EveryLeafIsTerm(q.left) /\ EveryLeafIsTerm(q.right)

MaxWords == 2
FieldWords == SubSeq(<< <<"a">>, <<"b">>, <<"c">> >>, 1, MaxWords)

\* the document perform_index is handed
FieldDoc(d) ==
  [filename  |-> 1,
   full_path |-> Path(1),
   author    |-> FieldWords[d[3]],
   date      |-> <<"d">>,
   tags      |-> << <<"a">>, <<"b">> >>,
   title     |-> FieldWords[d[1]],
   subtitle  |-> <<"s">>,
   body      |-> << FieldWords[d[2]] >>]

to_uppercase(c) ==
  IF \E i \in 1..Len(LowerChars) : LowerChars[i] = c
  THEN UpperChars[CHOOSE i \in 1..Len(LowerChars) : LowerChars[i] = c]
  ELSE c

\* the names a token is given: the known field names and an unknown one
FieldNames == [k \in 1..Len(TagNames) |-> TagNames[k].kw] \o << <<"f","o","o">> >>

\* lower case, upper case, capitalized
Casings == <<"lower", "upper", "capital">>
InCase(name, c) ==
  [i \in 1..Len(name) |->
     IF c = "upper" \/ (c = "capital" /\ i = 1) THEN to_uppercase(name[i]) ELSE name[i]]

\* the values of a token: each word bare, and the first word quoted
FieldValues == FieldWords \o << <<QUOTE, "a", QUOTE>> >>

\* what follows the value inside the token
Trails == << <<>>, <<SP>> >>

\* what precedes the token in the expression
Leads ==
  << <<>>, <<"b", SP>>, <<"b", SP, QUOTE, "a", SP, "b", QUOTE, SP>>, <<SP>> >>

\* the character that ends the expression (the tests end theirs with `\n`
\* in a raw string, whose backslash no lexer accepts)
Stopper == <<"\\">>

FieldToken(d) == InCase(FieldNames[d[4]], Casings[d[5]]) \o <<":">> \o FieldValues[d[6]] \o Trails[d[7]]

InitField ==
  /\ IdleProgram
  /\ \E t \in 1..MaxWords, b \in 1..MaxWords, a \in 1..MaxWords,
        n \in 1..Len(FieldNames), c \in 1..Len(Casings),
        v \in 1..Len(FieldValues), w \in 1..Len(Trails), l \in 1..Len(Leads) :
       /\ qops = <<t, b, a, n, c, v, w, l>>
       /\ qin = FieldToken(<<t, b, a, n, c, v, w, l>>)
  /\ qnl = FALSE
  /\ qout = NoQuery
  /\ ppc = "start"

\* perform_index on the document, then the commit
IndexDoc ==
  /\ ppc = "start"
  /\ db' = perform_index(db, FieldDoc(qops))
  /\ indexed' = indexed + 1
  /\ ppc' = "indexed"
  /\ UNCHANGED <<checks, appvars, loopvars, chanvars, threadvars, qops, qnl, qin, qout>>

\* XapianTag::parse on the token, and the leaf made of its result
ParseTag(qpOk) ==
  /\ ppc = "indexed"
  /\ qout' = IF qpOk /\ XapianTag_parse(qin).ok
             THEN [kind |-> "Ok", query |-> token_query(qin)]
             ELSE [kind |-> "Err", query |-> Leaf(<<>>)]
  /\ ppc' = "resolved"
  /\ UNCHANGED <<envvars, appvars, loopvars, chanvars, threadvars, qops, qnl, qin>>

\* expression_into_query on the expression that holds the token
ExprQuery(qpOk) ==
  /\ ppc = "indexed"
  /\ qout' = expression_into_query(Leads[qops[8]] \o qin \o Stopper, qpOk)
  /\ ppc' = "expr"
  /\ UNCHANGED <<envvars, appvars, loopvars, chanvars, threadvars, qops, qnl, qin>>

\* what the loop keeps of a parse result pr and a query result qr
FieldQueryResult(pr, qr) ==
  /\ qout' = pr
  /\ parsed' = IF pr.kind = "Ok" THEN "ok"
               ELSE IF pr.kind = "Err" THEN "err" ELSE "panic"
  /\ queried' = IF pr.kind # "Ok" THEN "no" ELSE IF qr.ok THEN "ok" ELSE "err"
  /\ matches' = IF pr.kind = "Ok" /\ qr.ok THEN qr.docs ELSE matches

\* the query path of the interactive loop on the token: parse_user_query on
\* the text plus "\n", then query_db
FieldQuery(qpOk, dbOk) ==
  /\ ppc = "indexed"
  /\ FieldQueryResult(parse_user_query(qin \o <<NL>>, qpOk),
                      query_db(parse_user_query(qin \o <<NL>>, qpOk).query, db, dbOk))
  /\ ppc' = "queried"
  /\ UNCHANGED <<envvars, input, selected, pc, result, rxDropped, lastEvent, prevSel,
                 queryAfterIntr, chanvars, threadvars, qops, qnl, qin>>

NextField ==
  \/ IndexDoc
  \/ \E qpOk \in BOOLEAN : ParseTag(qpOk)
  \/ \E qpOk \in BOOLEAN : ExprQuery(qpOk)
  \/ \E qpOk \in BOOLEAN, dbOk \in BOOLEAN : FieldQuery(qpOk, dbOk)

SpecField == InitField /\ [][NextField]_vars

\* the field of the document each field name of a query stands for
FieldOf ==
  [Author |-> "author", Date |-> "date", Filename |-> "filename",
   Fullpath |-> "full_path", Title |-> "title", Subtitle |-> "subtitle", Tag |-> "tags"]

\* the texts perform_index indexes for a field of a document
IndexedTexts(doc, t) ==
  IF t = "Tag"
  THEN {doc.tags[i] : i \in 1..Len(doc.tags)}
  ELSE {field_text(FieldOf[t], doc[FieldOf[t]])}

\* C18: for every field, the prefix perform_index attaches to the field's
\* text is the prefix both to_xapian tables resolve the field name to;
\* Filename and Fullpath share one prefix and all other prefixes differ.  So
\* every text indexed for a field is found under the query-side prefix, and
\* a token resolved to a field hits the document exactly when its value is a
\* text of that field.
C18_SamePrefixBothSides ==
  /\ \A t \in DOMAIN FieldOf :
       /\ XapianTag_to_xapian[t] = index_prefix[FieldOf[t]]
       /\ XTag_to_xapian[t] = index_prefix[FieldOf[t]]
  /\ \A t, u \in DOMAIN FieldOf :
       (t # u /\ XapianTag_to_xapian[t] = XapianTag_to_xapian[u])
         => {t, u} = {"Filename", "Fullpath"}
  /\ XapianTag_to_xapian.Filename = XapianTag_to_xapian.Fullpath
  /\ (ppc # "start" /\ Len(db) = 1) =>
       \A t \in DOMAIN FieldOf : \A x \in IndexedTexts(FieldDoc(qops), t) :
         Term(XapianTag_to_xapian[t], x) \in db[1].terms
  /\ (ppc = "resolved" /\ qout.kind = "Ok") =>
       (Matches(QueryTerms(qout.query), db[1])
          <=> Unquote(XapianTag_parse(qin).value)
                \in IndexedTexts(FieldDoc(qops), XapianTag_parse(qin).tag))

\* a title token resolved and found by its prefix alone: the body of the
\* document holds another word
C18_Witness ==
  /\ ppc = "resolved"
  /\ qout.kind = "Ok"
  /\ qout.query.prefix = "S"
  /\ Matches(QueryTerms(qout.query), db[1])
  /\ FieldDoc(qops).body[1] # FieldDoc(qops).title

\* the token is `title:T`, in lower case and bare, for the title T of the
\* indexed document
TitleOfDocument ==
  /\ FieldNames[qops[4]] = <<"t","i","t","l","e">>
  /\ Casings[qops[5]] = "lower"
  /\ FieldValues[qops[6]] = FieldDoc(qops).title
  /\ Trails[qops[7]] = <<>>

\* C19: a document indexed with title T is in the result set of the
\* field-scoped query `title:T` submitted through parse_user_query and
\* query_db right after the commit.
C19_TitleQueryFindsDocument ==
  (ppc = "queried" /\ TitleOfDocument /\ queried = "ok") =>
    \E i \in 1..Len(matches) : matches[i].filename = FieldDoc(qops).filename

\* the name of the token is one of the known field names
KnownName == qops[4] <= Len(TagNames)

\* the leaf scoped to the prefix of the token's field, holding its value
ScopedLeaf == PrefixLeaf(XapianTag_to_xapian[TagNames[qops[4]].tag], FieldValues[qops[6]])

\* the leaf of the token in the query of the expression: the expression is
\* the token alone, or what precedes it OR-ed with the token
TokenLeaf(q) == IF q.node = "leaf" THEN q ELSE q.right

\* the lexer accepted the expression, so an error is the engine's
ExprLexed == expression(Leads[qops[8]] \o qin \o Stopper).res = "Ok"

\* the value of the token is quoted, or a further character follows it
\* inside the token
ValueDelimited == FieldValues[qops[6]][1] = QUOTE \/ Trails[qops[7]] # <<>>

\* C20: field resolution is total: a token `name:value` whose name is a known
\* field name, in any letter case, yields a leaf scoped to that field's
\* prefix, and a token whose name is not a known field is not an error but
\* becomes an unprefixed full-text leaf.
C20_FieldResolutionTotal ==
  /\ ppc = "resolved" => (XapianTag_parse(qin).ok <=> KnownName)
  /\ ppc = "expr" =>
       /\ ExprLexed
       /\ qout.kind = "Ok" =>
            TokenLeaf(qout.query) = IF KnownName THEN ScopedLeaf ELSE Leaf(qin)

\* C20, as the code has it: a token whose name is a known field name, in any
\* letter case, yields a leaf scoped to that field's prefix when its value is
\* quoted or followed by a further character inside the token; every other
\* token (an unknown name, or a bare value that ends the token) is not an
\* error and becomes an unprefixed full-text leaf of the whole token.
C20_FieldResolutionDelimited ==
  /\ ppc = "resolved" => (XapianTag_parse(qin).ok <=> (KnownName /\ ValueDelimited))
  /\ ppc = "expr" =>
       /\ ExprLexed
       /\ qout.kind = "Ok" =>
            TokenLeaf(qout.query) =
              IF KnownName /\ ValueDelimited THEN ScopedLeaf ELSE Leaf(qin)

\* an upper-case AUTHOR token resolved to the author prefix by
\* expression_into_query
C20_Witness ==
  /\ ppc = "expr"
  /\ qout.kind = "Ok"
  /\ KnownName
  /\ Casings[qops[5]] = "upper"
  /\ TokenLeaf(qout.query) = ScopedLeaf
  /\ ScopedLeaf.prefix = "A"

(***************************************************************************)
(* The indexing run of main on a batch of glob entries (SpecIndex).  Here  *)
(* qops is the batch, indexed the number of entries consumed, ppc the      *)
(* position of the run and qout.kind what became of the last entry.        *)
(***************************************************************************)
\* entries in the longest batch
MaxBatch == 3

\* a date neither parse_from_rfc3339 nor parse_from_str accepts
BadDate == <<"x">>

\* the values of `tags` in a front matter: a bare scalar, lists of strings in
\* both orders and with a repeated element, an integer, a list with one
TagValues ==
  {YStr(Wa), YStr(Waa), [kind |-> "int", val |-> Wa]}
  \cup {YSeq(vs) : vs \in {<<YStr(Wa)>>, <<YStr(Wa), YStr(Waa)>>, <<YStr(Waa), YStr(Wa)>>,
                           <<YStr(Wa), YStr(Wa)>>, <<YStr(Wa), [kind |-> "int", val |-> Wa]>>}}

\* the entries the glob can yield: files that parse, with one of two names
\* and one of two contents, an entry error, and a file with each defect
GlobEntries ==
  {[glob |-> "ok", file |-> File(n, t, <<t>>)] : n \in 1..2, t \in {Wa, Waa}}
  \cup {[glob |-> "err", file |-> File(1, Wa, <<Wa>>)]}
  \cup {[glob |-> "ok", file |-> [File(1, Wa, <<Wa>>) EXCEPT !.readable = FALSE]]}
  \cup {[glob |-> "ok", file |-> [File(1, Wa, <<Wa>>) EXCEPT !.front = fr]] :
          fr \in {"none", "invalid", "incomplete"}}
  \cup {[glob |-> "ok", file |-> [File(1, Wa, <<Wa>>) EXCEPT !.date = BadDate]]}
  \cup {[glob |-> "ok", file |-> [File(1, Wa, <<Wa>>) EXCEPT !.tags = v]] : v \in TagValues}

\* TikaDocument::parse_date
parse_date(doc) == doc.date # BadDate

\* what one turn of the loop over the glob makes of an entry and a parse
\* result p: an entry error and a parse_file Err are reported, a panic ends
\* the process, an Err of perform_index (date, engine) leaves main through `?`
entry_outcome(database, e, p, engOk) ==
  IF e.glob = "err" THEN [kind |-> "reported", db |-> database]
  ELSE IF p.panic THEN [kind |-> "panic", db |-> database]
  ELSE IF ~p.ok THEN [kind |-> "reported", db |-> database]
  ELSE IF ~parse_date(p.doc) THEN [kind |-> "date_err", db |-> database]
  ELSE IF ~engOk THEN [kind |-> "engine_err", db |-> database]
  ELSE [kind |-> "indexed", db |-> perform_index(database, p.doc)]

InitIndex ==
  /\ IdleProgram
  /\ \E n \in 0..MaxBatch : qops \in [1..n -> GlobEntries]
  /\ qnl = FALSE
  /\ qin = <<>>
  /\ qout = NoQuery
  /\ ppc = "indexing"

\* one turn of the loop over the glob
BatchEntry(engOk) ==
  /\ ppc = "indexing"
  /\ indexed < Len(qops)
  /\ qout' = [kind |-> entry_outcome(db, qops[indexed + 1],
                                     parse_file(qops[indexed + 1].file), engOk).kind,
              query |-> Leaf(<<>>)]
  /\ db' = entry_outcome(db, qops[indexed + 1],
                         parse_file(qops[indexed + 1].file), engOk).db
  /\ indexed' = indexed + 1
  /\ ppc' = CASE qout'.kind = "panic" -> "panicked"
              [] qout'.kind \in {"date_err", "engine_err"} -> "failed"
              [] OTHER -> "indexing"
  /\ UNCHANGED <<checks, appvars, loopvars, chanvars, threadvars, qops, qnl, qin>>

\* db.commit() after the last entry
BatchCommit(engOk) ==
  /\ ppc = "indexing"
  /\ indexed = Len(qops)
  /\ ppc' = IF engOk THEN "committed" ELSE "failed"
  /\ qout' = [kind |-> IF engOk THEN "commit" ELSE "engine_err", query |-> Leaf(<<>>)]
  /\ UNCHANGED <<envvars, appvars, loopvars, chanvars, threadvars, qops, qnl, qin>>

NextIndex ==
  \/ \E engOk \in BOOLEAN : BatchEntry(engOk)
  \/ \E engOk \in BOOLEAN : BatchCommit(engOk)

SpecIndex == InitIndex /\ [][NextIndex]_vars

\* the entries of the batch whose file parse_file accepts
Parsed(i) == qops[i].glob = "ok" /\ parse_file(qops[i].file).ok

\* C21: after any sequence of perform_index calls followed by a commit, the
\* index holds exactly one document per distinct filename, and its payload is
\* the one given by the most recent perform_index call for that filename.
C21_UpsertByFilename ==
  ppc = "committed" =>
    /\ \A i, j \in 1..Len(db) : db[i].id = db[j].id => i = j
    /\ \A i \in 1..Len(qops) : Parsed(i) =>
         \E k \in 1..Len(db) :
           /\ db[k].id = <<"Q", parse_file(qops[i].file).doc.filename>>
           /\ \E j \in i..Len(qops) :
                /\ Parsed(j)
                /\ db[k].data = to_json(parse_file(qops[j].file).doc)
                /\ \A m \in (j + 1)..Len(qops) :
                     Parsed(m) => parse_file(qops[m].file).doc.filename
                                    # parse_file(qops[j].file).doc.filename
    /\ \A k \in 1..Len(db) : \E i \in 1..Len(qops) :
         Parsed(i) /\ db[k].id = <<"Q", parse_file(qops[i].file).doc.filename>>

\* the same file indexed twice with changed content, and committed
C21_Witness ==
  /\ ppc = "committed"
  /\ Len(db) = 1
  /\ \E i, j \in 1..Len(qops) :
       /\ i < j /\ Parsed(i) /\ Parsed(j)
       /\ qops[i].file.path = qops[j].file.path
       /\ qops[i].file.title # qops[j].file.title
       /\ db[1].data.title = qops[j].file.title

\* C22: during an indexing run a failure on one entry (glob entry error,
\* unreadable file, missing or invalid front-matter block, unparseable
\* timestamp) is reported and the entry skipped: the run is only ever ended
\* by the engine, every entry of the batch is consumed and the run reaches
\* the commit.
C22_EntryFailuresAreSkipped ==
  /\ ppc \in {"panicked", "failed"} => qout.kind = "engine_err"
  /\ ppc = "committed" => indexed = Len(qops)

\* the entry the run has just indexed
LastIndexed == qops[indexed].file

\* C23: deserializing the front-matter `tags` field yields a one-element list
\* holding the string when the field is a single scalar string, and the list
\* unchanged (same elements, same order) when it is a list of strings.
C23_TagsScalarOrList ==
  (ppc = "indexing" /\ qout.kind = "indexed") =>
    \E k \in 1..Len(db) :
      /\ db[k].id = <<"Q", file_name(LastIndexed.path)>>
      /\ LastIndexed.tags.kind = "str" => db[k].data.tags = <<LastIndexed.tags.val>>
      /\ LastIndexed.tags.kind = "seq" =>
           /\ Len(db[k].data.tags) = Len(LastIndexed.tags.val)
           /\ \A i \in 1..Len(LastIndexed.tags.val) :
                YStr(db[k].data.tags[i]) = LastIndexed.tags.val[i]

\* a file with `tags: a` indexed with the one-element list, and a file with a
\* two-element list indexed before it
C23_Witness ==
  /\ ppc = "indexing"
  /\ qout.kind = "indexed"
  /\ LastIndexed.tags = YStr(Wa)
  /\ \E k \in 1..Len(db) : db[k].data.tags = <<Wa>>
  /\ \E j \in 1..(indexed - 1) : qops[j].file.tags = YSeq(<<YStr(Waa), YStr(Wa)>>)

(***************************************************************************)
(* The interactive loop again (Spec).                                      *)
(***************************************************************************)
\* C24: after any sequence of input events in the interactive loop the
\* selection cursor is either unset or a valid index into the current result
\* list, so that accept and navigation never read outside the list or
\* compute an index below zero.
C24_SelectionInRange ==
  /\ pc = "Editing" => (selected = None \/ selected < Len(matches))
  /\ pc # "Panicked"

\* C27: the interactive loop yields a non-empty selection only when it was
\* terminated by accept; after a cancel (Ctrl-C) the yielded selection is
\* empty even if a result was highlighted at that moment.
C27_CancelYieldsNothing ==
  pc = "Exited" =>
    /\ result # <<>> => lastEvent = "Enter"
    /\ lastEvent = "CtrlC" => result = <<>>

\* the loop takes a tick off the queue in this step
TickTaken ==
  /\ pc = "Editing"
  /\ chan # <<>>
  /\ Head(chan).type = "Tick"
  /\ Len(chan') < Len(chan)

\* C29: a tick event changes nothing in the loop state: the query buffer, the
\* result list and the selection cursor are unchanged, no parse and no Search
\* Engine query is run, and the loop remains in Editing.
C29_TickChangesNothing ==
  [][TickTaken =>
       /\ input' = input
       /\ matches' = matches
       /\ selected' = selected
       /\ parsed' = "no"
       /\ queried' = "no"
       /\ pc' = "Editing"]_vars

\* a tick taken while results are shown and one of them is highlighted
C29_Witness ==
  /\ pc = "Editing"
  /\ lastEvent = "Tick"
  /\ matches # <<>>
  /\ selected # None
  /\ input # <<>>

(***************************************************************************)
(* parse_user_query and the word lexer on short texts again (SpecText)     *)
(***************************************************************************)
\* a word that is an operator keyword, or one word of the two-word keywords,
\* in any case
KeywordWord(w) ==
  \/ \E k \in 1..Len(MatchOps) : IsKeyword(w, MatchOps[k].kw)
  \/ IsKeyword(w, <<"N","O","T">>)
  \/ IsKeyword(w, <<"M","A","Y","B","E">>)

\* no whitespace-delimited word of the text is an operator keyword
NoOperatorWord(s) ==
  \A i \in 1..Len(WordSeq(s, 1, <<>>)) : ~KeywordWord(WordSeq(s, 1, <<>>)[i])

\* C25: a term that only contains an operator keyword as a substring is kept
\* as one term by parse_user_query: a text in which no whitespace-delimited
\* word is an operator keyword is not split: when it is parsed into a query,
\* the query is the one leaf of the whole text.
C25_KeywordInsideTermKept ==
  (ppc = "done" /\ NoOperatorWord(qin) /\ qout.kind = "Ok") =>
    qout.query = Leaf(qin)

\* C26: whenever take_up_to_operator succeeds, matchop succeeds on the
\* remainder that starts at the keyword: parse_user_query never takes its
\* "Couldn't match leading operator" branch (the texts here are far too short
\* for the depth limit, the other panic of the function).
C26_LeadingOperatorAlwaysMatches ==
  ppc = "done" =>
    /\ (take_up_to_operator(qin).ok /\ qout.kind # "Err") =>
         matchop(take_up_to_operator(qin).rest).res = "Ok"
    /\ Len(qops) < DepthLimit => qout.kind # "Panic"

\* an alphanumeric or underscore character of the generated texts
WordCharacter(c) == c \in {"a", "A", "N", "D", "o", "r", "_", "1"}

\* the text starts with exactly n word characters
LeadingRun(s, n) ==
  /\ n <= Len(s)
  /\ \A i \in 1..n : WordCharacter(s[i])
  /\ n < Len(s) => ~WordCharacter(s[n + 1])

\* C30: the word lexer matches the maximal leading run of alphanumeric and
\* underscore characters only when a further character follows the run: the
\* match is the run, the rest starts at the terminating character (match
\* followed by rest is the input, the rest's offset is the length of the
\* match); on a text made of word characters only it fails as incomplete.
C30_WordNeedsTerminator ==
  ppc = "lexed" =>
    \A n \in 0..Len(qin) :
      LeadingRun(qin, n) =>
        /\ qout.kind = "Ok" <=> (0 < n /\ n < Len(qin))
        /\ qout.kind = "Ok" =>
             /\ qout.query.text = SubSeq(qin, 1, n)
             /\ qout.query.text \o qout.rest = qin
             /\ Len(qin) - Len(qout.rest) = n
             /\ ~WordCharacter(qout.rest[1])
        /\ n = Len(qin) => qout.kind = "Incomplete"

\* the lexer has matched a run with an underscore and a digit, stopped by a
\* blank that more text follows
C30_Witness ==
  /\ ppc = "lexed"
  /\ qout.kind = "Ok"
  /\ qout.query.text = <<"a", "_", "1">>
  /\ qout.rest = <<SP, "a">>

(***************************************************************************)
(* expression_into_query on an expression of several tokens (SpecField)    *)
(***************************************************************************)
\* the leaves of the non-whitespace tokens that precede the field token in
\* the expression: none, the word b, the word b and the phrase "a b", none
\* (the expression starts with a blank)
LeadLeaves ==
  << <<>>,
     << Leaf(<<"b">>) >>,
     << Leaf(<<"b">>), Leaf(<<QUOTE, "a", SP, "b", QUOTE>>) >>,
     <<>> >>

\* the leaf of the field token: under the prefix of its field when
\* XapianTag::parse takes it as a field token (see C20), plain otherwise
FieldTokenLeaf == IF KnownName /\ ValueDelimited THEN ScopedLeaf ELSE Leaf(qin)

\* ((t1 OR t2) OR t3) ... over the first k of the leaves
RECURSIVE OrChain(_, _)
OrChain(leaves, k) ==
  IF k = 1 THEN leaves[1]
  ELSE [node |-> "op", op |-> "Or", left |-> OrChain(leaves, k - 1), right |-> leaves[k]]

\* C28: expression_into_query combines the non-whitespace tokens of its
\* input, in token order, into a left-nested chain of OR; whitespace-only
\* tokens are skipped and leave the accumulated query as it is, field tokens
\* give leaves under their field prefix and quoted tokens phrase leaves.
C28_OrChainOfTokens ==
  (ppc = "expr" /\ qout.kind = "Ok") =>
    qout.query = OrChain(Append(LeadLeaves[qops[8]], FieldTokenLeaf),
                         Len(LeadLeaves[qops[8]]) + 1)

====
